---- MODULE Spec2Model ----
(***************************************************************************)
(* helmscan: the Helm chart scan, the chart comparison (CompareHelmCharts)  *)
(* and the Markdown / JSON report of a comparison, modelled from            *)
(* internal/helmscan/helmscan.go and cmd/app/main.go.                       *)
(*                                                                         *)
(* Go values are modelled as follows.                                       *)
(*   *ContainerImage   a record with isNil = TRUE for the nil pointer       *)
(*   map[string]X      a function whose DOMAIN is the key set; the field    *)
(*                     ContainerImage.Vulnerabilities, which can be the nil *)
(*                     map, is a record [isNil, kv]                         *)
(*   []X               a sequence                                           *)
(*   range over a map  a sequence of the keys chosen by \E where the order  *)
(*                     can be observed                                      *)
(***************************************************************************)
EXTENDS Integers, Sequences, FiniteSets, TLC

\* The longest ContainsImages slice of a chart that is explored.
MaxImages == 2

-----------------------------------------------------------------------------
(* Maps *)

EmptyMap == [k \in {} |-> k]

MapSet(m, k, v) == [x \in (DOMAIN m) \cup {k} |-> IF x = k THEN v ELSE m[x]]

\* The nil map of a zero-valued ContainerImage.Vulnerabilities field.
NilVulnMap == [isNil |-> TRUE, kv |-> EmptyMap]

\* make(map[string]imageScan.Vulnerability) filled with kv.
VulnMap(kv) == [isNil |-> FALSE, kv |-> kv]

\* The keys a range over (or a lookup in) the map sees; a nil map has none.
Keys(vulns) == IF vulns.isNil THEN {} ELSE DOMAIN vulns.kv

\* Every order in which a range over a map with key set S can visit it.
Orders(S) == {o \in [1..Cardinality(S) -> S] : {o[i] : i \in 1..Cardinality(S)} = S}

-----------------------------------------------------------------------------
(* Data types *)

Vuln(id, sev) == [ID |-> id, Severity |-> sev]

NilImage == [isNil |-> TRUE]

ContainerImage(repo, name, tag, vulns) ==
    [isNil |-> FALSE, Repository |-> repo, ImageName |-> name, Tag |-> tag,
     Vulnerabilities |-> vulns]

HelmChart(repo, name, version, images) ==
    [HelmRepo |-> repo, Name |-> name, Version |-> version, ContainsImages |-> images]

\* HelmChart{}: the zero value returned beside an early error.
ZeroChart == HelmChart("", "", "", <<>>)

NewComparison(before, after) ==
    [Before |-> before, After |-> after,
     AddedImages |-> EmptyMap, RemovedImages |-> EmptyMap,
     ChangedImages |-> EmptyMap, UnChangedImages |-> EmptyMap,
     RemovedCVEs |-> EmptyMap, AddedCVEs |-> EmptyMap, UnchangedCVEs |-> EmptyMap]

-----------------------------------------------------------------------------
(* CompareHelmCharts *)

\* A nil entry of ContainsImages: img.ImageName dereferences it.
HasNilImage(chart) == \E i \in 1..Len(chart.ContainsImages) : chart.ContainsImages[i].isNil

RECURSIVE IndexImages(_, _)
\* for _, img := range chart.ContainsImages { m[img.ImageName] = img }
IndexImages(imgs, m) ==
    IF imgs = <<>> THEN m
    ELSE IndexImages(Tail(imgs), MapSet(m, Head(imgs).ImageName, Head(imgs)))

\* if _, exists := cves[id]; !exists { cves[id] = make(...) }; cves[id][name] = vuln
RecordCVE(cves, id, name, vuln) ==
    MapSet(cves, id, MapSet(IF id \in DOMAIN cves THEN cves[id] ELSE EmptyMap, name, vuln))

RECURSIVE RecordAll(_, _, _, _)
\* for ID, vuln := range img.Vulnerabilities { cves[ID][name] = vuln }
\* Each iteration writes its own key (ID, name), so the order is immaterial.
RecordAll(cves, ids, name, vulns) ==
    IF ids = {} THEN cves
    ELSE LET id == CHOOSE x \in ids : TRUE
         IN  RecordAll(RecordCVE(cves, id, name, vulns.kv[id]), ids \ {id}, name, vulns)

\* The branch taken for one CVE of the before image of a Changed pair.
BeforeVulnStep(id, before, after, comparison) ==
    IF id \notin Keys(after.Vulnerabilities)
    THEN [comparison EXCEPT !.RemovedCVEs =
              RecordCVE(@, id, before.ImageName, before.Vulnerabilities.kv[id])]
    ELSE [comparison EXCEPT !.UnchangedCVEs =
              RecordCVE(@, id, before.ImageName, before.Vulnerabilities.kv[id])]

RECURSIVE CompareBeforeVulns(_, _, _, _)
\* The first loop of compareImageVulnerabilities.
CompareBeforeVulns(ids, before, after, comparison) ==
    IF ids = {} THEN comparison
    ELSE LET id == CHOOSE x \in ids : TRUE
         IN  CompareBeforeVulns(ids \ {id}, before, after,
                                BeforeVulnStep(id, before, after, comparison))

\* The branch taken for one CVE of the after image of a Changed pair.
AfterVulnStepNoGuard(id, before, after, comparison) ==
    [comparison EXCEPT !.AddedCVEs =
        RecordCVE(@, id, after.ImageName, after.Vulnerabilities.kv[id])]

AfterVulnStep(id, before, after, comparison) ==
    IF id \notin Keys(before.Vulnerabilities)
    THEN [comparison EXCEPT !.AddedCVEs =
              RecordCVE(@, id, after.ImageName, after.Vulnerabilities.kv[id])]
    ELSE comparison

RECURSIVE CompareAfterVulns(_, _, _, _)
\* The second loop of compareImageVulnerabilities.
CompareAfterVulns(ids, before, after, comparison) ==
    IF ids = {} THEN comparison
    ELSE LET id == CHOOSE x \in ids : TRUE
         IN  CompareAfterVulns(ids \ {id}, before, after,
                               AfterVulnStep(id, before, after, comparison))

compareImageVulnerabilities(before, after, comparison) ==
    CompareAfterVulns(Keys(after.Vulnerabilities), before, after,
        CompareBeforeVulns(Keys(before.Vulnerabilities), before, after, comparison))

\* if beforeImg.Tag != afterImg.Tag
TagDiffersOrRepo(beforeImg, afterImg) ==
    beforeImg.Tag # afterImg.Tag \/ beforeImg.Repository # afterImg.Repository

TagDiffers(beforeImg, afterImg) == beforeImg.Tag # afterImg.Tag

\* The else branch of the tag test: the pair is Unchanged.
UnchangedStepBothSides(name, beforeImg, afterImg, comparison) ==
    compareImageVulnerabilities(beforeImg, afterImg,
        [comparison EXCEPT !.UnChangedImages = MapSet(@, name, <<beforeImg, afterImg>>)])

UnchangedStep(name, beforeImg, afterImg, comparison) ==
    [comparison EXCEPT
        !.UnChangedImages = MapSet(@, name, <<beforeImg, afterImg>>),
        !.UnchangedCVEs = RecordAll(@, Keys(beforeImg.Vulnerabilities), name,
                                    beforeImg.Vulnerabilities)]

\* One iteration of: for name, beforeImg := range beforeImages
BeforeImageStep(name, beforeImages, afterImages, comparison) ==
    LET beforeImg == beforeImages[name]
    IN  IF name \in DOMAIN afterImages
        THEN LET afterImg == afterImages[name]
             IN  IF TagDiffers(beforeImg, afterImg)
                 THEN compareImageVulnerabilities(beforeImg, afterImg,
                          [comparison EXCEPT
                              !.ChangedImages = MapSet(@, name, <<beforeImg, afterImg>>)])
                 ELSE UnchangedStep(name, beforeImg, afterImg, comparison)
        ELSE [comparison EXCEPT
                 !.RemovedImages = MapSet(@, name, <<beforeImg>>),
                 !.RemovedCVEs = RecordAll(@, Keys(beforeImg.Vulnerabilities), name,
                                           beforeImg.Vulnerabilities)]

RECURSIVE BeforeLoop(_, _, _, _)
BeforeLoop(order, beforeImages, afterImages, comparison) ==
    IF order = <<>> THEN comparison
    ELSE BeforeLoop(Tail(order), beforeImages, afterImages,
                    BeforeImageStep(Head(order), beforeImages, afterImages, comparison))

\* One iteration of: for name, afterImg := range afterImages
AfterImageStepNoGuard(name, beforeImages, afterImages, comparison) ==
    LET afterImg == afterImages[name]
    IN  [comparison EXCEPT
            !.AddedImages = MapSet(@, name, <<afterImg>>),
            !.AddedCVEs = RecordAll(@, Keys(afterImg.Vulnerabilities), name,
                                    afterImg.Vulnerabilities)]

AfterImageStep(name, beforeImages, afterImages, comparison) ==
    LET afterImg == afterImages[name]
    IN  IF name \notin DOMAIN beforeImages
        THEN [comparison EXCEPT
                 !.AddedImages = MapSet(@, name, <<afterImg>>),
                 !.AddedCVEs = RecordAll(@, Keys(afterImg.Vulnerabilities), name,
                                         afterImg.Vulnerabilities)]
        ELSE comparison

RECURSIVE AfterLoop(_, _, _, _)
AfterLoop(order, beforeImages, afterImages, comparison) ==
    IF order = <<>> THEN comparison
    ELSE AfterLoop(Tail(order), beforeImages, afterImages,
                   AfterImageStep(Head(order), beforeImages, afterImages, comparison))

\* CompareHelmCharts(before, after) when the range over beforeImages visits the
\* names in beforeOrder and the range over afterImages visits them in afterOrder.
CompareHelmCharts(before, after, beforeOrder, afterOrder) ==
    LET beforeImages == IndexImages(before.ContainsImages, EmptyMap)
        afterImages  == IndexImages(after.ContainsImages, EmptyMap)
    IN  AfterLoop(afterOrder, beforeImages, afterImages,
            BeforeLoop(beforeOrder, beforeImages, afterImages,
                       NewComparison(before, after)))

ImageNames(chart) ==
    {chart.ContainsImages[i].ImageName : i \in 1..Len(chart.ContainsImages)}

-----------------------------------------------------------------------------
(* Severity counts *)

\* severities := []string{"critical", "high", "medium", "low"}
severities == <<"critical", "high", "medium", "low">>

\* counts[severity] of a map[string]int: a missing key reads as 0.
Lookup(counts, sev) == IF sev \in DOMAIN counts THEN counts[sev] ELSE 0

\* A count that marks a severity as seen instead of counting its entries.
IncrementOnce(counts, sev) == MapSet(counts, sev, 1)

\* counts[sev]++
Increment(counts, sev) == MapSet(counts, sev, Lookup(counts, sev) + 1)

RECURSIVE CountVulns(_, _, _)
\* for _, vuln := range img.Vulnerabilities { counts[vuln.Severity]++ }
CountVulns(ids, vulns, counts) ==
    IF ids = {} THEN counts
    ELSE LET id  == CHOOSE x \in ids : TRUE
             sev == vulns.kv[id].Severity
         IN  CountVulns(ids \ {id}, vulns, Increment(counts, sev))

RECURSIVE CountImages(_, _)
\* for _, img := range chart.ContainsImages { ... }
CountImages(imgs, counts) ==
    IF imgs = <<>> THEN counts
    ELSE CountImages(Tail(imgs),
                     CountVulns(Keys(Head(imgs).Vulnerabilities),
                                Head(imgs).Vulnerabilities, counts))

RECURSIVE Digits(_)
\* %d of a non-negative int: its decimal digits.
Digits(n) ==
    LET d == <<"0", "1", "2", "3", "4", "5", "6", "7", "8", "9">>
    IN  IF n < 10 THEN <<d[n + 1]>> ELSE Digits(n \div 10) \o <<d[(n % 10) + 1]>>

\* fmt.Sprintf("%d", n)
FormatInt(n) == IF n < 0 THEN <<"-">> \o Digits(-n) ELSE Digits(n)

\* fmt.Sprintf("%+d", n): the sign is always printed.
FormatSigned(n) == IF n < 0 THEN <<"-">> \o Digits(-n) ELSE <<"+">> \o Digits(n)

\* The severity table of generateMarkdownReport: one row of cells per severity.
MarkdownSeverityRowsSwapped(comparison) ==
    LET prevCounts    == CountImages(comparison.Before.ContainsImages, EmptyMap)
        currentCounts == CountImages(comparison.After.ContainsImages, EmptyMap)
    IN  [i \in 1..Len(severities) |->
            LET count     == Lookup(prevCounts, severities[i])
                prevCount == Lookup(currentCounts, severities[i])
            IN  <<severities[i], FormatInt(count), FormatInt(prevCount),
                  FormatSigned(count - prevCount)>>]

MarkdownSeverityRows(comparison) ==
    LET prevCounts    == CountImages(comparison.Before.ContainsImages, EmptyMap)
        currentCounts == CountImages(comparison.After.ContainsImages, EmptyMap)
    IN  [i \in 1..Len(severities) |->
            LET count     == Lookup(currentCounts, severities[i])
                prevCount == Lookup(prevCounts, severities[i])
            IN  <<severities[i], FormatInt(count), FormatInt(prevCount),
                  FormatSigned(count - prevCount)>>]

generateJSONSeverityCounts(comparison) ==
    LET prevCounts    == CountImages(comparison.Before.ContainsImages, EmptyMap)
        currentCounts == CountImages(comparison.After.ContainsImages, EmptyMap)
    IN  [i \in 1..Len(severities) |->
            LET current  == Lookup(currentCounts, severities[i])
                previous == Lookup(prevCounts, severities[i])
            IN  [Severity |-> severities[i], Current |-> current,
                 Previous |-> previous, Difference |-> current - previous]]

-----------------------------------------------------------------------------
(* Images table and image-change list *)

\* One "| name | status | before repo | after repo | before tag | after tag |" row.
Row(name, status, beforeRepo, afterRepo, beforeTag, afterTag) ==
    <<name, status, beforeRepo, afterRepo, beforeTag, afterTag>>

\* The rows appended by the four range loops of generateMarkdownReport, each
\* loop visiting its map in the given order.
MarkdownImageRows(comparison, added, removed, changed, unchanged) ==
    [i \in 1..Len(added) |->
        LET images == comparison.AddedImages[added[i]]
        IN  Row(added[i], "Added", "-", images[1].Repository, "-", images[1].Tag)]
    \o
    [i \in 1..Len(removed) |->
        LET images == comparison.RemovedImages[removed[i]]
        IN  Row(removed[i], "Removed", images[1].Repository, "-", images[1].Tag, "-")]
    \o
    [i \in 1..Len(changed) |->
        LET images == comparison.ChangedImages[changed[i]]
        IN  Row(changed[i], "Changed", images[1].Repository, images[2].Repository,
                images[1].Tag, images[2].Tag)]
    \o
    [i \in 1..Len(unchanged) |->
        LET images == comparison.UnChangedImages[unchanged[i]]
        IN  Row(unchanged[i], "Unchanged", images[1].Repository, images[2].Repository,
                images[1].Tag, images[2].Tag)]

\* reports.ImageChange; a field the literal leaves out is the empty string.
ImageChange(name, status, beforeRepo, afterRepo, beforeTag, afterTag) ==
    [Name |-> name, Status |-> status, BeforeRepo |-> beforeRepo,
     AfterRepo |-> afterRepo, BeforeTag |-> beforeTag, AfterTag |-> afterTag]

generateJSONImageChanges(comparison, added, removed, changed, unchanged) ==
    [i \in 1..Len(added) |->
        LET images == comparison.AddedImages[added[i]]
        IN  ImageChange(added[i], "Added", "", images[1].Repository, "", images[1].Tag)]
    \o
    [i \in 1..Len(removed) |->
        LET images == comparison.RemovedImages[removed[i]]
        IN  ImageChange(removed[i], "Removed", images[1].Repository, "", images[1].Tag, "")]
    \o
    [i \in 1..Len(changed) |->
        LET images == comparison.ChangedImages[changed[i]]
        IN  ImageChange(changed[i], "Changed", images[1].Repository,
                        images[2].Repository, images[1].Tag, images[2].Tag)]
    \o
    [i \in 1..Len(unchanged) |->
        LET images == comparison.UnChangedImages[unchanged[i]]
        IN  ImageChange(unchanged[i], "Unchanged", images[1].Repository,
                        images[1].Repository, images[1].Tag, images[1].Tag)]

-----------------------------------------------------------------------------
(* The CVE tables *)

\* reports.Vulnerability.GetSeverity
GetSeverity(vuln) == vuln.Severity

\* reports.SortableCVE{ID: ..., Severity: ..., Images: ...}
SortableCVE(id, severity, images) == [ID |-> id, Severity |-> severity, Images |-> images]

\* For each CVE ID of cves, the orders in which
\* `for imageName, vuln := range imageVulns` can visit the images of the CVE.
ImageOrders(cves) ==
    {f \in [DOMAIN cves -> UNION {Orders(DOMAIN cves[id]) : id \in DOMAIN cves}] :
        \A id \in DOMAIN cves : f[id] \in Orders(DOMAIN cves[id])}

RECURSIVE RangeImageVulns(_, _, _, _)
\* for imageName, vuln := range imageVulns {
\*     images = append(images, imageName); severity = vuln.GetSeverity() }
RangeImageVulns(order, imageVulns, images, severity) ==
    IF order = <<>> THEN SortableCVE("", severity, images)
    ELSE RangeImageVulns(Tail(order), imageVulns, Append(images, Head(order)),
                         GetSeverity(imageVulns[Head(order)]))

\* The list sortedCVEs before the sort, as a set: one SortableCVE for each CVE ID.
CollectCVEs(cves, imageOrders) ==
    {LET cve == RangeImageVulns(imageOrders[cveID], cves[cveID], <<>>, "")
     IN  SortableCVE(cveID, cve.Severity, cve.Images) : cveID \in DOMAIN cves}

\* The rank reports.SortableCVEList sorts a severity by: critical first, an
\* unknown or unexpected severity last.
SeverityRank(sev) ==
    CASE sev = "critical" -> 4
      [] sev = "high"     -> 3
      [] sev = "medium"   -> 2
      [] sev = "low"      -> 1
      [] OTHER            -> 0

\* The CVE IDs of the explored scans in ascending lexicographic order.
CveIds == <<"CVE-1", "CVE-2", "CVE-3", "CVE-4", "CVE-5">>

\* a < b for two CVE IDs, as Go compares strings.
IdLess(a, b) ==
    \E i, j \in 1..Len(CveIds) : CveIds[i] = a /\ CveIds[j] = b /\ i < j

\* reports.SortableCVEList.Less
CVELess(a, b) ==
    \/ SeverityRank(a.Severity) > SeverityRank(b.Severity)
    \/ /\ SeverityRank(a.Severity) = SeverityRank(b.Severity)
       /\ IdLess(a.ID, b.ID)

RECURSIVE SortCVEs(_)
\* sort.Sort(sortedCVEs): the IDs are distinct, so Less leaves one sorted list.
SortCVEs(cves) ==
    IF cves = {} THEN <<>>
    ELSE LET first == CHOOSE c \in cves : \A d \in cves \ {c} : CVELess(c, d)
         IN  <<first>> \o SortCVEs(cves \ {first})

\* strings.Title of the severities of the explored scans.
Title(sev) ==
    CASE sev = "critical" -> "Critical"
      [] sev = "high"     -> "High"
      [] sev = "medium"   -> "Medium"
      [] sev = "low"      -> "Low"
      [] sev = "unknown"  -> "Unknown"
      [] OTHER            -> sev

\* One line of a CVE table.
HeaderLine == [line |-> "header", title |-> "", ID |-> "", Severity |-> "", Images |-> <<>>]
RuleLine == [line |-> "rule", title |-> "", ID |-> "", Severity |-> "", Images |-> <<>>]
BlankLine == [line |-> "blank", title |-> "", ID |-> "", Severity |-> "", Images |-> <<>>]
NoCVEsLine == [line |-> "none", title |-> "", ID |-> "", Severity |-> "", Images |-> <<>>]
BandLine(title) ==
    [line |-> "band", title |-> title, ID |-> "", Severity |-> "", Images |-> <<>>]
RowLine(cve) ==
    [line |-> "row", title |-> "", ID |-> cve.ID, Severity |-> cve.Severity,
     Images |-> cve.Images]

\* A band test that opens a band at every row.
NewBandAlways(cve, currentSeverity) == TRUE

\* if cve.Severity != currentSeverity
NewBand(cve, currentSeverity) == cve.Severity # currentSeverity

RECURSIVE FormatCVEs(_, _, _)
\* for _, cve := range sortedCVEs { ... }
FormatCVEs(sortedCVEs, currentSeverity, sb) ==
    IF sortedCVEs = <<>> THEN sb
    ELSE LET cve == Head(sortedCVEs)
         IN  IF NewBand(cve, currentSeverity)
             THEN FormatCVEs(Tail(sortedCVEs), cve.Severity,
                             sb \o (IF currentSeverity # "" THEN <<BlankLine>> ELSE <<>>)
                                \o <<BandLine(Title(cve.Severity)), HeaderLine, RuleLine,
                                     RowLine(cve)>>)
             ELSE FormatCVEs(Tail(sortedCVEs), currentSeverity, sb \o <<RowLine(cve)>>)

\* sortAndFormatCVEs(cves), its lines in order.
sortAndFormatCVEs(cves, imageOrders) ==
    IF DOMAIN cves = {} THEN <<NoCVEsLine>>
    ELSE FormatCVEs(SortCVEs(CollectCVEs(cves, imageOrders)), "", <<HeaderLine, RuleLine>>)

\* The three CVE tables of generateMarkdownReport, in the order it writes them.
MarkdownCVETables(comparison, cveOrders) ==
    <<[title |-> "Unchanged CVEs",
       lines |-> sortAndFormatCVEs(comparison.UnchangedCVEs, cveOrders.unchanged)],
      [title |-> "Added CVEs",
       lines |-> sortAndFormatCVEs(comparison.AddedCVEs, cveOrders.added)],
      [title |-> "Removed CVEs",
       lines |-> sortAndFormatCVEs(comparison.RemovedCVEs, cveOrders.removed)]>>

\* The Markdown report: the severity table, the images table and the CVE tables.
generateMarkdownReport(comparison, added, removed, changed, unchanged, cveOrders) ==
    [kind |-> "md",
     severityRows |-> MarkdownSeverityRows(comparison),
     imageRows |-> MarkdownImageRows(comparison, added, removed, changed, unchanged),
     cveTables |-> MarkdownCVETables(comparison, cveOrders)]

\* The Summary block of the JSON report.
generateJSONReport(comparison, added, removed, changed, unchanged) ==
    [kind |-> "json",
     SeverityCounts |-> generateJSONSeverityCounts(comparison),
     ImageChanges |-> generateJSONImageChanges(comparison, added, removed, changed,
                                               unchanged)]

\* var lastReport string
NoReport == [kind |-> "none"]

-----------------------------------------------------------------------------
(* Scan *)

\* The images extractImagesFromYAML returns for the explored charts: what
\* parseImageString builds, with the Vulnerabilities field left at its zero value.
ImageHeaders ==
    {ContainerImage("docker.io", "app", "v1", NilVulnMap),
     ContainerImage("quay.io", "app", "v1", NilVulnMap),
     ContainerImage("docker.io", "app", "v2", NilVulnMap),
     ContainerImage("docker.io", "sidecar", "v1", NilVulnMap)}

\* fmt.Sprintf("%s/%s:%s", img.Repository, img.ImageName, img.Tag)
ImageRef(img) == <<img.Repository, "/", img.ImageName, ":", img.Tag>>

\* scanResult.VulnList of a successful imageScan.ScanImage(ref).
VulnLists(ref) ==
    CASE ref = <<"docker.io", "/", "app", ":", "v1">> ->
            {<<Vuln("CVE-1", "high"), Vuln("CVE-2", "critical"), Vuln("CVE-1", "low")>>}
      [] ref = <<"quay.io", "/", "app", ":", "v1">> ->
            {<<Vuln("CVE-1", "high")>>}
      [] ref = <<"docker.io", "/", "app", ":", "v2">> ->
            {<<Vuln("CVE-2", "high"), Vuln("CVE-3", "low")>>}
      [] OTHER ->
            {<<Vuln("CVE-4", "medium")>>,
             <<Vuln("CVE-1", "critical"), Vuln("CVE-4", "medium"),
               Vuln("CVE-5", "unknown")>>}

RECURSIVE CollectVulns(_, _)
\* for i := range VulnList { if _, exists := tmpVulns[ID]; !exists { tmpVulns[ID] = ... } }
CollectVulns(vulnList, tmpVulns) ==
    IF vulnList = <<>> THEN tmpVulns
    ELSE CollectVulns(Tail(vulnList),
                      IF Head(vulnList).ID \in DOMAIN tmpVulns THEN tmpVulns
                      ELSE MapSet(tmpVulns, Head(vulnList).ID, Head(vulnList)))

\* The &ContainerImage{...} stored for an image whose scan succeeded.
ScannedImage(img, vulnList) ==
    ContainerImage(img.Repository, img.ImageName, img.Tag,
                   VulnMap(CollectVulns(vulnList, EmptyMap)))

\* What one ScanImage call can do: fail, or return a VulnList.
ScanOutcomes(img) ==
    {[failed |-> TRUE, VulnList |-> <<>>]}
    \cup {[failed |-> FALSE, VulnList |-> l] : l \in VulnLists(ImageRef(img))}

\* The scan loop over a slice pre-sized with make([]*ContainerImage, len(images)):
\* the entry of an image whose scan failed is never assigned and stays nil.
ScanLoop(images, outcomes) ==
    [i \in 1..Len(images) |->
        IF outcomes[i].failed THEN NilImage
        ELSE ScannedImage(images[i], outcomes[i].VulnList)]

\* len(scanErrors) > 0
ScanFailed(outcomes) == \E i \in 1..Len(outcomes) : outcomes[i].failed

\* Scan's return value once the images are extracted.
ScanReturn(images, outcomes) ==
    [chart |-> HelmChart("repo", "chart", "1.0.0", ScanLoop(images, outcomes)),
     err |-> ScanFailed(outcomes)]

\* Scan's return value when a step before the scan loop fails.
ScanEarlyError == [chart |-> ZeroChart, err |-> TRUE]

\* Every (images, outcomes) a Scan can meet: one or more extracted images
\* (strings.Split yields at least one element), each scanned once.
ScanRuns ==
    UNION {UNION {{[images |-> imgs, outcomes |-> outs] :
                      outs \in {o \in [1..n -> UNION {ScanOutcomes(h) : h \in ImageHeaders}] :
                                   \A i \in 1..n : o[i] \in ScanOutcomes(imgs[i])}} :
                  imgs \in [1..n -> ImageHeaders]} : n \in 1..MaxImages}

-----------------------------------------------------------------------------
(* The charts handed to CompareHelmCharts *)

\* The images a caller of the exported CompareHelmCharts can put in a chart:
\* scanned images, an image as parseImageString leaves it, and a nil entry as
\* Scan leaves it for a failed image.
Images ==
    UNION {{ScannedImage(h, l) : l \in VulnLists(ImageRef(h))} : h \in ImageHeaders}
    \cup {ContainerImage("docker.io", "sidecar", "v1", NilVulnMap), NilImage}

Charts ==
    {HelmChart("repo", "chart", "1.0.0", imgs) :
        imgs \in UNION {[1..n -> Images] : n \in 0..MaxImages}}

-----------------------------------------------------------------------------
(* Strings *)

\* A Go string is modelled as the sequence of its characters.
\* strings.Contains(s, c) for a one-character c.
Contains(s, c) == \E i \in 1..Len(s) : s[i] = c

RECURSIVE Split(_, _)
\* strings.Split(s, sep) for a one-character sep: one more part than s has
\* separators, so a string without the separator (the empty one included)
\* yields one part.
Split(s, sep) ==
    IF ~Contains(s, sep) THEN <<s>>
    ELSE LET i == CHOOSE k \in 1..Len(s) : s[k] = sep /\ \A l \in 1..(k - 1) : s[l] # sep
         IN  <<SubSeq(s, 1, i - 1)>> \o Split(SubSeq(s, i + 1, Len(s)), sep)

RECURSIVE Join(_, _)
\* strings.Join(parts, sep)
Join(parts, sep) ==
    IF parts = <<>> THEN <<>>
    ELSE IF Len(parts) = 1 THEN parts[1]
    ELSE parts[1] \o <<sep>> \o Join(Tail(parts), sep)

\* parts[:len(parts)-1]
AllButLast(parts) == SubSeq(parts, 1, Len(parts) - 1)

\* parts[len(parts)-1]
Last(parts) == parts[Len(parts)]

-----------------------------------------------------------------------------
(* Chart references *)

\* main.isHelmChart
isHelmChart(ref) == Contains(ref, "/") /\ Contains(ref, "@")

\* The four values parseChartReference returns.
ChartReference(repo, chart, version, err) ==
    [repo |-> repo, chart |-> chart, version |-> version, err |-> err]

\* A length test that lets a reference with more parts through.
TwoPartsOrMore(parts) == Len(parts) >= 2

\* !(len(parts) != 2)
TwoParts(parts) == Len(parts) = 2

\* parseChartReference(chartRef)
parseChartReference(chartRef) ==
    LET parts == Split(chartRef, "/")
    IN  IF ~TwoParts(parts) THEN ChartReference(<<>>, <<>>, <<>>, TRUE)
        ELSE LET repoAndChart == parts[2]
                 repoParts    == Split(repoAndChart, "@")
             IN  IF ~TwoParts(repoParts) THEN ChartReference(<<>>, <<>>, <<>>, TRUE)
                 ELSE ChartReference(parts[1], repoParts[1], repoParts[2], FALSE)

-----------------------------------------------------------------------------
(* Image strings *)

\* The string "latest".
Latest == <<"l", "a", "t", "e", "s", "t">>

\* The repository and the image name parseImageString takes from the part of
\* the string before the tag.
SplitRepository(repoAndImage) ==
    LET repoParts == Split(repoAndImage, "/")
    IN  IF Len(repoParts) > 1
        THEN [imageName |-> Last(repoParts), repository |-> Join(AllButLast(repoParts), "/")]
        ELSE [imageName |-> repoAndImage, repository |-> <<>>]

\* parseImageString(imageString); the Vulnerabilities field keeps its zero value.
parseImageString(imageString) ==
    LET parts == Split(imageString, ":")
    IN  IF Len(parts) > 1
        THEN LET tag          == Last(parts)
                 repoAndImage == Join(AllButLast(parts), ":")
                 names        == SplitRepository(repoAndImage)
             IN  ContainerImage(names.repository, names.imageName, tag, NilVulnMap)
        ELSE LET names == SplitRepository(imageString)
             IN  ContainerImage(names.repository, names.imageName, Latest, NilVulnMap)

\* fmt.Sprintf("%s/%s:%s", img.Repository, img.ImageName, img.Tag), character
\* by character.
ImageRefString(img) == img.Repository \o <<"/">> \o img.ImageName \o <<":">> \o img.Tag

\* The longest string explored.
MaxRefLen == 5

\* The strings explored as chart references.
ChartRefs == UNION {[1..n -> {"a", "/", "@"}] : n \in 0..MaxRefLen}

\* The strings explored as image strings.
ImageStrings == UNION {[1..n -> {"a", "/", ":"}] : n \in 0..MaxRefLen}

-----------------------------------------------------------------------------
(* State *)

VARIABLES
    pc,          \* where the caller is
    before,      \* the first argument of CompareHelmCharts
    after,       \* the second argument of CompareHelmCharts
    comparison,  \* CompareHelmCharts(before, after)
    reverse,     \* CompareHelmCharts(after, before)
    mdReport,    \* the string built by generateMarkdownReport
    jsonReport,  \* the string built by generateJSONReport
    lastReport,  \* GenerateReport's return value
    saved,       \* the reports.SaveToFile calls made, in order
    scans,       \* main.compareHelmCharts: the values returned by Scan so far
    input,       \* the string handed to a parser
    output       \* what the parser made of it

vars == <<pc, before, after, comparison, reverse, mdReport, jsonReport, lastReport,
          saved, scans, input, output>>

NoComparison == [none |-> TRUE]

\* No parser has run.
NoParse == [none |-> TRUE]

Init ==
    /\ \/ /\ pc = "call"
          /\ before \in Charts
          /\ after \in Charts
       \/ /\ pc = "cli"
          /\ before = ZeroChart
          /\ after = ZeroChart
    /\ comparison = NoComparison
    /\ reverse = NoComparison
    /\ mdReport = NoReport
    /\ jsonReport = NoReport
    /\ lastReport = NoReport
    /\ saved = <<>>
    /\ scans = <<>>
    /\ input = <<>>
    /\ output = NoParse

\* comparison := CompareHelmCharts(before, after)
Compare ==
    /\ pc = "call"
    /\ IF HasNilImage(before) \/ HasNilImage(after)
       THEN /\ pc' = "panic"
            /\ UNCHANGED comparison
       ELSE /\ pc' = "compared"
            /\ \E beforeOrder \in Orders(ImageNames(before)),
                  afterOrder \in Orders(ImageNames(after)) :
                  comparison' = CompareHelmCharts(before, after, beforeOrder, afterOrder)
    /\ UNCHANGED <<before, after, reverse, mdReport, jsonReport, lastReport, saved, scans,
                   input, output>>

\* reverse := CompareHelmCharts(after, before), by a caller that compares both ways.
CompareSwapped ==
    /\ pc = "compared"
    /\ \E beforeOrder \in Orders(ImageNames(after)),
          afterOrder \in Orders(ImageNames(before)) :
          reverse' = CompareHelmCharts(after, before, beforeOrder, afterOrder)
    /\ pc' = "swapped"
    /\ UNCHANGED <<before, after, comparison, mdReport, jsonReport, lastReport,
                   saved, scans, input, output>>

\* GenerateReport(comparison, generateJSON, generateMD)
GenerateReport(generateJSON, generateMD) ==
    /\ pc = "compared"
    /\ pc' = "reported"
    /\ \E mdA \in Orders(DOMAIN comparison.AddedImages),
          mdR \in Orders(DOMAIN comparison.RemovedImages),
          mdC \in Orders(DOMAIN comparison.ChangedImages),
          mdU \in Orders(DOMAIN comparison.UnChangedImages),
          jsA \in Orders(DOMAIN comparison.AddedImages),
          jsR \in Orders(DOMAIN comparison.RemovedImages),
          jsC \in Orders(DOMAIN comparison.ChangedImages),
          jsU \in Orders(DOMAIN comparison.UnChangedImages),
          cvU \in ImageOrders(comparison.UnchangedCVEs),
          cvA \in ImageOrders(comparison.AddedCVEs),
          cvR \in ImageOrders(comparison.RemovedCVEs) :
          LET md == generateMarkdownReport(comparison, mdA, mdR, mdC, mdU,
                        [unchanged |-> cvU, added |-> cvA, removed |-> cvR])
              js == generateJSONReport(comparison, jsA, jsR, jsC, jsU)
          IN  /\ mdReport' = IF generateMD THEN md ELSE NoReport
              /\ jsonReport' = IF generateJSON THEN js ELSE NoReport
              /\ lastReport' = IF generateJSON THEN js
                               ELSE IF generateMD THEN md ELSE NoReport
              /\ saved' = (IF generateMD THEN <<[ext |-> ".md", content |-> md]>>
                           ELSE <<>>)
                          \o (IF generateJSON THEN <<[ext |-> ".json", content |-> js]>>
                              ELSE <<>>)
    /\ UNCHANGED <<before, after, comparison, reverse, scans, input, output>>

\* main.compareHelmCharts: scannedChart1, err := helmscan.Scan(chartRef1), and
\* the return on err.
ScanFirst ==
    /\ pc = "cli"
    /\ \E r \in {ScanEarlyError} \cup {ScanReturn(run.images, run.outcomes) : run \in ScanRuns} :
          /\ scans' = <<r>>
          /\ pc' = IF r.err THEN "cli_done" ELSE "scanned1"
    /\ UNCHANGED <<before, after, comparison, reverse, mdReport, jsonReport, lastReport,
                   saved, input, output>>

\* main.compareHelmCharts: scannedChart2, err := helmscan.Scan(chartRef2), the
\* return on err, and the two log lines that end the function.
ScanSecond ==
    /\ pc = "scanned1"
    /\ \E r \in {ScanEarlyError} \cup {ScanReturn(run.images, run.outcomes) : run \in ScanRuns} :
          /\ scans' = Append(scans, r)
          /\ pc' = "cli_done"
    /\ UNCHANGED <<before, after, comparison, reverse, mdReport, jsonReport, lastReport,
                   saved, input, output>>

Next ==
    \/ Compare
    \/ CompareSwapped
    \/ \E generateJSON \in BOOLEAN, generateMD \in BOOLEAN :
          GenerateReport(generateJSON, generateMD)
    \/ ScanFirst
    \/ ScanSecond

Spec == Init /\ [][Next]_vars

-----------------------------------------------------------------------------
(* The path of one chart reference from the command line into Scan *)

\* The variables the parsers leave alone.
core == <<before, after, comparison, reverse, mdReport, jsonReport, lastReport, saved,
          scans>>

\* The state of the report variables before anything ran.
Idle ==
    /\ before = ZeroChart
    /\ after = ZeroChart
    /\ comparison = NoComparison
    /\ reverse = NoComparison
    /\ mdReport = NoReport
    /\ jsonReport = NoReport
    /\ lastReport = NoReport
    /\ saved = <<>>
    /\ scans = <<>>

\* main.scanSingleArtifact is called with a reference.
InitRef ==
    /\ pc = "artifact"
    /\ input \in ChartRefs
    /\ output = NoParse
    /\ Idle

\* main.scanSingleArtifact: if isHelmChart(artifactRef) { scanSingleHelmChart }
\* else { scanSingleImage }
ClassifyArtifact ==
    /\ pc = "artifact"
    /\ pc' = IF isHelmChart(input) THEN "helm" ELSE "image"
    /\ UNCHANGED <<core, input, output>>

\* main.scanSingleHelmChart: the split on "@" and the Fatalf unless it gives
\* two parts; otherwise helmscan.Scan(chartRef) is called.
CheckVersion ==
    /\ pc = "helm"
    /\ pc' = IF Len(Split(input, "@")) # 2 THEN "fatal" ELSE "scan"
    /\ UNCHANGED <<core, input, output>>

\* Scan: os.MkdirAll("working-files", 0755), which can fail.
ScanMkdir ==
    /\ pc = "scan"
    /\ pc' \in {"parse", "scan_error"}
    /\ UNCHANGED <<core, input, output>>

\* Scan: parseChartReference(chartRef) and the return on its error; otherwise
\* the next statement runs `helm repo update`.
ScanParse ==
    /\ pc = "parse"
    /\ output' = parseChartReference(input)
    /\ pc' = IF output'.err THEN "scan_error" ELSE "helm_repo_update"
    /\ UNCHANGED <<core, input>>

NextRef ==
    \/ ClassifyArtifact
    \/ CheckVersion
    \/ ScanMkdir
    \/ ScanParse

SpecRef == InitRef /\ [][NextRef]_vars

-----------------------------------------------------------------------------
(* The path of one image string through Scan *)

\* extractImagesFromYAML holds one line of the extracted output.
InitImage ==
    /\ pc = "image_string"
    /\ input \in ImageStrings
    /\ output = NoParse
    /\ Idle

\* extractImagesFromYAML: image := parseImageString(imageString)
ParseImage ==
    /\ pc = "image_string"
    /\ output' = [image |-> parseImageString(input), imageName |-> <<>>]
    /\ pc' = "image_parsed"
    /\ UNCHANGED <<core, input>>

\* Scan: imageName := fmt.Sprintf("%s/%s:%s", img.Repository, img.ImageName, img.Tag),
\* the reference handed to imageScan.ScanImage.
ComposeImageName ==
    /\ pc = "image_parsed"
    /\ output' = [output EXCEPT !.imageName = ImageRefString(output.image)]
    /\ pc' = "image_named"
    /\ UNCHANGED <<core, input>>

NextImage ==
    \/ ParseImage
    \/ ComposeImageName

SpecImage == InitImage /\ [][NextImage]_vars

-----------------------------------------------------------------------------
(* Vocabulary of the properties *)

\* CompareHelmCharts(before, after) has returned.
Compared == pc \in {"compared", "reported", "swapped"}

\* The image name has an entry under the CVE ID in a global CVE map.
Recorded(cves, id, name) == id \in DOMAIN cves /\ name \in DOMAIN cves[id]

\* The (CVE ID, image name) entries of a global CVE map.
Entries(cves) == UNION {{<<id, name>> : name \in DOMAIN cves[id]} : id \in DOMAIN cves}

\* The (CVE ID, image name, vulnerability) entries of a global CVE map.
Backed(cves) ==
    UNION {{<<id, name, cves[id][name]>> : name \in DOMAIN cves[id]} : id \in DOMAIN cves}

\* The (CVE ID, image name, vulnerability) entries of one image.
BackedBy(img, ids) == {<<id, img.ImageName, img.Vulnerabilities.kv[id]>> : id \in ids}

\* How many of the three global CVE maps record the image under the CVE ID.
TimesRecorded(c, id, name) ==
    Cardinality({k \in {"Added", "Removed", "Unchanged"} :
        Recorded(CASE k = "Added" -> c.AddedCVEs
                   [] k = "Removed" -> c.RemovedCVEs
                   [] OTHER -> c.UnchangedCVEs, id, name)})

\* The entry of the chart that a lookup by name yields when several entries
\* share the name: the last one.
LastImage(chart, name) ==
    LET idx == {i \in 1..Len(chart.ContainsImages) : chart.ContainsImages[i].ImageName = name}
    IN  chart.ContainsImages[CHOOSE i \in idx : \A j \in idx : j <= i]

\* The data-model invariants of a snapshot: no nil entry, no nil vulnerability
\* map, no two entries with the same name.
WellFormed(chart) ==
    LET imgs == chart.ContainsImages
    IN  /\ \A i \in 1..Len(imgs) : ~imgs[i].isNil /\ ~imgs[i].Vulnerabilities.isNil
        /\ \A i, j \in 1..Len(imgs) : imgs[i].ImageName = imgs[j].ImageName => i = j

\* C1: every image name of before or after is a key of exactly one of
\* AddedImages, RemovedImages, ChangedImages, UnChangedImages, and the four maps
\* have no other key.
C1_PartitionComplete ==
    Compared =>
        LET A == DOMAIN comparison.AddedImages
            R == DOMAIN comparison.RemovedImages
            C == DOMAIN comparison.ChangedImages
            U == DOMAIN comparison.UnChangedImages
        IN  /\ A \cup R \cup C \cup U = ImageNames(before) \cup ImageNames(after)
            /\ A \cap R = {} /\ A \cap C = {} /\ A \cap U = {}
            /\ R \cap C = {} /\ R \cap U = {} /\ C \cap U = {}

\* C1 witness: a comparison with an Added and a Changed image.
C1_Witness ==
    /\ Compared
    /\ DOMAIN comparison.AddedImages # {}
    /\ DOMAIN comparison.ChangedImages # {}

OnlyIn(chart, other) ==
    {chart.ContainsImages[i] : i \in {j \in 1..Len(chart.ContainsImages) :
        chart.ContainsImages[j].ImageName \notin ImageNames(other)}}

\* The <<before image, after image>> pairs of ChangedImages or UnChangedImages.
Pairs(images) == {images[name] : name \in DOMAIN images}

\* C3 as stated: the three global CVE maps hold exactly the listed entries,
\* each backed by the listed vulnerability: Added, the CVEs of the images only
\* in after and the after-only CVEs of the Changed pairs; Removed, the CVEs of
\* the images only in before and the before-only CVEs of the Changed pairs;
\* Unchanged, the common CVEs of the Changed pairs and the CVEs of the before
\* image of the Unchanged pairs, from the before image.
C3_Original ==
    Compared =>
        LET changed   == Pairs(comparison.ChangedImages)
            unchanged == Pairs(comparison.UnChangedImages)
            K(img)    == Keys(img.Vulnerabilities)
        IN  /\ Backed(comparison.AddedCVEs) =
                  UNION {BackedBy(img, K(img)) : img \in OnlyIn(after, before)}
                  \cup UNION {BackedBy(p[2], K(p[2]) \ K(p[1])) : p \in changed}
            /\ Backed(comparison.RemovedCVEs) =
                  UNION {BackedBy(img, K(img)) : img \in OnlyIn(before, after)}
                  \cup UNION {BackedBy(p[1], K(p[1]) \ K(p[2])) : p \in changed}
            /\ Backed(comparison.UnchangedCVEs) =
                  UNION {BackedBy(p[1], K(p[1]) \cap K(p[2])) : p \in changed}
                  \cup UNION {BackedBy(p[1], K(p[1])) : p \in unchanged}
            /\ (before.ContainsImages = <<>> =>
                    comparison.RemovedCVEs = EmptyMap /\ comparison.UnchangedCVEs = EmptyMap)
            /\ (after.ContainsImages = <<>> =>
                    comparison.AddedCVEs = EmptyMap /\ comparison.UnchangedCVEs = EmptyMap)

\* C4: an image name of both snapshots is Unchanged exactly when the two tags
\* are equal and Changed exactly when they differ, whatever the repositories
\* and the vulnerability maps; every CVE of the before image of an Unchanged
\* image is recorded as Unchanged for it, from the before image.
C4_TagDecides ==
    Compared =>
        \A name \in ImageNames(before) \cap ImageNames(after) :
            LET b == LastImage(before, name)
                a == LastImage(after, name)
            IN  /\ name \in DOMAIN comparison.UnChangedImages <=> b.Tag = a.Tag
                /\ name \in DOMAIN comparison.ChangedImages <=> b.Tag # a.Tag
                /\ b.Tag = a.Tag =>
                      \A id \in Keys(b.Vulnerabilities) :
                          /\ Recorded(comparison.UnchangedCVEs, id, name)
                          /\ comparison.UnchangedCVEs[id][name] = b.Vulnerabilities.kv[id]

\* C4 witness: an Unchanged image whose repositories differ and whose after
\* scan lacks a CVE of the before scan, which is recorded as Unchanged.
C4_Witness ==
    /\ Compared
    /\ \E name \in DOMAIN comparison.UnChangedImages :
          LET pair == comparison.UnChangedImages[name]
          IN  /\ pair[1].Repository # pair[2].Repository
              /\ \E id \in Keys(pair[1].Vulnerabilities) \ Keys(pair[2].Vulnerabilities) :
                    Recorded(comparison.UnchangedCVEs, id, name)

\* The Difference column of a rendered severity table is zero in every row.
ZeroDifferences ==
    /\ mdReport # NoReport =>
          \A i \in 1..Len(mdReport.severityRows) : mdReport.severityRows[i][4] = <<"+", "0">>
    /\ jsonReport # NoReport =>
          \A i \in 1..Len(jsonReport.SeverityCounts) :
              jsonReport.SeverityCounts[i].Difference = 0

\* C5 as stated: CompareHelmCharts(A, A) has no Added, Removed or Changed
\* image, every image of A Unchanged, no Added or Removed CVE, every
\* (CVE ID, image) of A in UnchangedCVEs, and a severity table of differences 0.
C5_Original ==
    Compared /\ before = after =>
        /\ comparison.AddedImages = EmptyMap
        /\ comparison.RemovedImages = EmptyMap
        /\ comparison.ChangedImages = EmptyMap
        /\ DOMAIN comparison.UnChangedImages = ImageNames(before)
        /\ comparison.AddedCVEs = EmptyMap
        /\ comparison.RemovedCVEs = EmptyMap
        /\ \A i \in 1..Len(before.ContainsImages) :
              \A id \in Keys(before.ContainsImages[i].Vulnerabilities) :
                  Recorded(comparison.UnchangedCVEs, id, before.ContainsImages[i].ImageName)
        /\ pc = "reported" => ZeroDifferences

\* C6: the Added image names of CompareHelmCharts(A, B) are the Removed image
\* names of CompareHelmCharts(B, A), the Added (CVE ID, image name) entries of
\* the one are the Removed entries of the other, and the same with Added and
\* Removed exchanged.
C6_AntiSymmetry ==
    Compared /\ reverse # NoComparison =>
        /\ DOMAIN comparison.AddedImages = DOMAIN reverse.RemovedImages
        /\ DOMAIN comparison.RemovedImages = DOMAIN reverse.AddedImages
        /\ Entries(comparison.AddedCVEs) = Entries(reverse.RemovedCVEs)
        /\ Entries(comparison.RemovedCVEs) = Entries(reverse.AddedCVEs)

\* C6 witness: both calls have returned, for charts with an Added image and a
\* Changed image that has an Added and a Removed CVE.
C6_Witness ==
    /\ Compared
    /\ reverse # NoComparison
    /\ comparison.AddedImages # EmptyMap
    /\ \E name \in DOMAIN comparison.ChangedImages :
          /\ \E id \in DOMAIN comparison.AddedCVEs : name \in DOMAIN comparison.AddedCVEs[id]
          /\ \E id \in DOMAIN comparison.RemovedCVEs : name \in DOMAIN comparison.RemovedCVEs[id]

\* C7 as stated: the rows of the Markdown images table and the entries of the
\* JSON image-change list are in the same order for every iteration order of
\* the four image maps.
C7_Original ==
    pc = "reported" =>
        \A added \in Orders(DOMAIN comparison.AddedImages),
           removed \in Orders(DOMAIN comparison.RemovedImages),
           changed \in Orders(DOMAIN comparison.ChangedImages),
           unchanged \in Orders(DOMAIN comparison.UnChangedImages) :
            /\ mdReport # NoReport =>
                  mdReport.imageRows =
                      MarkdownImageRows(comparison, added, removed, changed, unchanged)
            /\ jsonReport # NoReport =>
                  jsonReport.ImageChanges =
                      generateJSONImageChanges(comparison, added, removed, changed, unchanged)

\* C8 as stated: a snapshot with two images of one name, a nil image entry or
\* a nil vulnerability map is rejected, so CompareHelmCharts returns a diff
\* only for well-formed snapshots.
C8_Original ==
    Compared => WellFormed(before) /\ WellFormed(after)

\* C9 as stated: every entry of the image collection of an artifact returned
\* by Scan is an image with a non-nil vulnerability map.
C9_Original ==
    \A i \in 1..Len(scans) :
        \A j \in 1..Len(scans[i].chart.ContainsImages) :
            /\ ~scans[i].chart.ContainsImages[j].isNil
            /\ ~scans[i].chart.ContainsImages[j].Vulnerabilities.isNil

RECURSIVE CountOf(_, _)
\* The number of vulnerabilities of the severity over the images.
CountOf(imgs, sev) ==
    IF imgs = <<>> THEN 0
    ELSE Cardinality({id \in Keys(Head(imgs).Vulnerabilities) :
                         Head(imgs).Vulnerabilities.kv[id].Severity = sev})
         + CountOf(Tail(imgs), sev)

RECURSIVE Decimal(_)
\* The number a string of decimal digits denotes.
Decimal(cell) ==
    IF cell = <<>> THEN 0
    ELSE 10 * Decimal(SubSeq(cell, 1, Len(cell) - 1))
         + (CHOOSE d \in 0..9 :
               <<"0", "1", "2", "3", "4", "5", "6", "7", "8", "9">>[d + 1] = cell[Len(cell)])

\* C10: both severity tables have the four rows critical, high, medium, low in
\* this order; Count is the number of vulnerabilities of the severity over the
\* images of after, Prev Count the same over before, Difference their
\* difference, printed in Markdown with its sign, + for zero.
C10_SeverityTable ==
    pc = "reported" =>
        LET order == <<"critical", "high", "medium", "low">>
            cur(i) == CountOf(after.ContainsImages, order[i])
            prev(i) == CountOf(before.ContainsImages, order[i])
        IN  /\ mdReport # NoReport =>
                  /\ Len(mdReport.severityRows) = 4
                  /\ \A i \in 1..4 :
                        LET row == mdReport.severityRows[i]
                        IN  /\ row[1] = order[i]
                            /\ Decimal(row[2]) = cur(i)
                            /\ Decimal(row[3]) = prev(i)
                            /\ Head(row[4]) = (IF cur(i) < prev(i) THEN "-" ELSE "+")
                            /\ Decimal(Tail(row[4])) =
                                  (IF cur(i) < prev(i) THEN prev(i) - cur(i)
                                   ELSE cur(i) - prev(i))
            /\ jsonReport # NoReport =>
                  /\ Len(jsonReport.SeverityCounts) = 4
                  /\ \A i \in 1..4 :
                        jsonReport.SeverityCounts[i] =
                            [Severity |-> order[i], Current |-> cur(i),
                             Previous |-> prev(i), Difference |-> cur(i) - prev(i)]

\* C10 witness: both reports are rendered for charts where one severity went
\* down, one went up and one kept a count above zero.
C10_Witness ==
    /\ pc = "reported"
    /\ mdReport # NoReport
    /\ jsonReport # NoReport
    /\ \E i \in 1..4 : jsonReport.SeverityCounts[i].Difference < 0
    /\ \E i \in 1..4 : jsonReport.SeverityCounts[i].Difference > 0
    /\ \E i \in 1..4 :
          /\ mdReport.severityRows[i][4] = <<"+", "0">>
          /\ jsonReport.SeverityCounts[i].Current > 0

-----------------------------------------------------------------------------
(* C11 *)

RECURSIVE SumCounts(_, _)
\* The sum of counts[sev] over the severities in sevs.
SumCounts(counts, sevs) ==
    IF sevs = {} THEN 0
    ELSE LET sev == CHOOSE x \in sevs : TRUE
         IN  counts[sev] + SumCounts(counts, sevs \ {sev})

RECURSIVE TotalEntries(_)
\* The number of vulnerability entries of a list of images: the sum of the
\* sizes of their vulnerability maps.
TotalEntries(imgs) ==
    IF imgs = <<>> THEN 0
    ELSE Cardinality(Keys(Head(imgs).Vulnerabilities)) + TotalEntries(Tail(imgs))

\* The severities that occur in a list of images.
SeveritiesOf(imgs) ==
    {imgs[p[1]].Vulnerabilities.kv[p[2]].Severity :
        p \in UNION {{<<j, x>> : x \in Keys(imgs[j].Vulnerabilities)} :
                                j \in 1..Len(imgs)}}

\* C11: once a report is rendered, the per-severity counts computed for a
\* snapshot, summed over every severity key that occurs (the unknown one
\* included), equal the number of vulnerability entries of the snapshot, the
\* sum over its images of the size of the image's vulnerability map; a CVE ID
\* carried by two images is counted once for each.  The keys of the count map
\* are exactly the severities that occur.
C11_CountConservation ==
    pc = "reported" =>
        \A chart \in {comparison.Before, comparison.After} :
            LET counts == CountImages(chart.ContainsImages, EmptyMap)
            IN  /\ DOMAIN counts = SeveritiesOf(chart.ContainsImages)
                /\ SumCounts(counts, DOMAIN counts) = TotalEntries(chart.ContainsImages)

\* A rendered report for an after snapshot where two images carry the same CVE
\* ID, one entry has the unknown severity, and one severity is counted twice.
C11_Witness ==
    /\ pc = "reported"
    /\ mdReport # NoReport
    /\ LET imgs   == comparison.After.ContainsImages
           counts == CountImages(imgs, EmptyMap)
       IN  /\ Len(imgs) = 2
           /\ imgs[1].ImageName # imgs[2].ImageName
           /\ Keys(imgs[1].Vulnerabilities) \cap Keys(imgs[2].Vulnerabilities) # {}
           /\ "unknown" \in DOMAIN counts
           /\ \E sev \in DOMAIN counts : counts[sev] >= 2

-----------------------------------------------------------------------------
(* C12 *)

\* The classification map each CVE table of the Markdown report is rendered from.
TableSources ==
    <<[title |-> "Unchanged CVEs", cves |-> comparison.UnchangedCVEs],
      [title |-> "Added CVEs", cves |-> comparison.AddedCVEs],
      [title |-> "Removed CVEs", cves |-> comparison.RemovedCVEs]>>

\* The positions of the rows of a table.
RowsAt(lines) == {k \in 1..Len(lines) : lines[k].line = "row"}

\* The positions of the band headings of a table.
BandsAt(lines) == {k \in 1..Len(lines) : lines[k].line = "band"}

\* The severity bands in the order the tables list them.
BandOrder == <<"critical", "high", "medium", "low", "unknown">>

\* The position of x in the sequence s.
IndexIn(s, x) == CHOOSE i \in 1..Len(s) : s[i] = x

\* Row a comes before row b: a more severe band, or the same band and a
\* smaller CVE ID.
RowBefore(a, b) ==
    \/ IndexIn(BandOrder, a.Severity) < IndexIn(BandOrder, b.Severity)
    \/ /\ a.Severity = b.Severity
       /\ IndexIn(CveIds, a.ID) < IndexIn(CveIds, b.ID)

\* The heading of a band as the table prints it.
BandTitle(sev) ==
    CASE sev = "critical" -> "Critical"
      [] sev = "high"     -> "High"
      [] sev = "medium"   -> "Medium"
      [] sev = "low"      -> "Low"
      [] sev = "unknown"  -> "Unknown"

\* What C12 says of one table rendered from cves.
TableWellFormed(lines, cves) ==
    /\ \A id \in DOMAIN cves : Cardinality({k \in RowsAt(lines) : lines[k].ID = id}) = 1
    /\ \A k \in RowsAt(lines) : lines[k].ID \in DOMAIN cves
    /\ \A k, l \in RowsAt(lines) : k < l => RowBefore(lines[k], lines[l])
    /\ \A k \in RowsAt(lines) :
          /\ Cardinality({b \in BandsAt(lines) :
                              lines[b].title = BandTitle(lines[k].Severity)}) = 1
          /\ \E b \in BandsAt(lines) :
                /\ b < k
                /\ lines[b].title = BandTitle(lines[k].Severity)
                /\ \A l \in (b + 1)..k : l \notin BandsAt(lines)
    /\ \A b \in BandsAt(lines) :
          /\ b + 3 <= Len(lines)
          /\ lines[b + 1] = HeaderLine
          /\ lines[b + 2] = RuleLine
          /\ lines[b + 3].line = "row"
          /\ lines[b].title = BandTitle(lines[b + 3].Severity)
          /\ \A k \in RowsAt(lines) : k < b => lines[k].Severity # lines[b + 3].Severity
    /\ \A k \in RowsAt(lines) :
          /\ {lines[k].Images[i] : i \in 1..Len(lines[k].Images)} = DOMAIN cves[lines[k].ID]
          /\ Len(lines[k].Images) = Cardinality(DOMAIN cves[lines[k].ID])

\* C12: a Markdown report carries the three CVE tables in the order Unchanged,
\* Added, Removed, each rendered from its classification map; in each table
\* every CVE ID of the map has exactly one row and no other row is printed, the
\* rows are ordered by severity rank (critical, high, medium, low, unknown) and
\* within a severity by ascending CVE ID, every severity present has exactly
\* one band heading, printed with a fresh column header just before its first
\* row, and each row's Affected Images cell lists every image name recorded
\* under the CVE ID exactly once.
C12_CVETables ==
    (pc = "reported" /\ mdReport # NoReport) =>
        /\ Len(mdReport.cveTables) = 3
        /\ \A t \in 1..3 :
              /\ mdReport.cveTables[t].title = TableSources[t].title
              /\ TableWellFormed(mdReport.cveTables[t].lines, TableSources[t].cves)

\* A Markdown report with a table of at least two bands, one of them with two
\* rows, and a row whose CVE ID is recorded under two images.
C12_Witness ==
    /\ pc = "reported"
    /\ mdReport # NoReport
    /\ \E t \in 1..3 :
          LET lines == mdReport.cveTables[t].lines
          IN  /\ Cardinality(BandsAt(lines)) >= 2
              /\ \E k, l \in RowsAt(lines) :
                    k # l /\ lines[k].Severity = lines[l].Severity
              /\ \E k \in RowsAt(lines) : Len(lines[k].Images) = 2

-----------------------------------------------------------------------------
(* C17 *)

\* C17: the severity printed in a row of a CVE table is the one
\* sortAndFormatCVEs assigns to the row's CVE ID under every order in which
\* the per-image map of the CVE can be iterated.
C17_Original ==
    (pc = "reported" /\ mdReport # NoReport) =>
        \A t \in 1..3 :
            LET lines == mdReport.cveTables[t].lines
                cves  == TableSources[t].cves
            IN  \A k \in RowsAt(lines) :
                    \A imageOrders \in ImageOrders(cves) :
                        \E cve \in CollectCVEs(cves, imageOrders) :
                            /\ cve.ID = lines[k].ID
                            /\ cve.Severity = lines[k].Severity

-----------------------------------------------------------------------------
(* C13 *)

\* A JSON field and a Markdown cell show the same value: the field is empty
\* exactly where the cell is "-", and they are equal elsewhere.
SameCell(field, cell) ==
    /\ (field = "") <=> (cell = "-")
    /\ cell # "-" => field = cell

\* The Markdown row and the JSON entry describe the image alike.
SameImage(row, change) ==
    /\ row[1] = change.Name
    /\ row[2] = change.Status
    /\ SameCell(change.BeforeRepo, row[3])
    /\ SameCell(change.AfterRepo, row[4])
    /\ SameCell(change.BeforeTag, row[5])
    /\ SameCell(change.AfterTag, row[6])

\* C13: when both reports are rendered from a comparison, every classified
\* image name has exactly one row in the Markdown images table and exactly one
\* entry in the JSON image changes, the two carry the same status and the same
\* repository and tag values, the JSON field being empty exactly where the
\* Markdown cell is "-"; for a Changed or Unchanged image the After fields are
\* those of the after image of the pair.
C13_Original ==
    (pc = "reported" /\ mdReport # NoReport /\ jsonReport # NoReport) =>
        LET rows    == mdReport.imageRows
            changes == jsonReport.ImageChanges
            names   == DOMAIN comparison.AddedImages \cup DOMAIN comparison.RemovedImages
                       \cup DOMAIN comparison.ChangedImages
                       \cup DOMAIN comparison.UnChangedImages
            pairs   == [name \in DOMAIN comparison.ChangedImages \cup
                                 DOMAIN comparison.UnChangedImages |->
                           IF name \in DOMAIN comparison.ChangedImages
                           THEN comparison.ChangedImages[name]
                           ELSE comparison.UnChangedImages[name]]
        IN  /\ \A name \in names :
                  /\ Cardinality({i \in 1..Len(rows) : rows[i][1] = name}) = 1
                  /\ Cardinality({j \in 1..Len(changes) : changes[j].Name = name}) = 1
            /\ \A i \in 1..Len(rows) : rows[i][1] \in names
            /\ \A j \in 1..Len(changes) : changes[j].Name \in names
            /\ \A i \in 1..Len(rows), j \in 1..Len(changes) :
                  rows[i][1] = changes[j].Name => SameImage(rows[i], changes[j])
            /\ \A j \in 1..Len(changes) :
                  changes[j].Name \in DOMAIN pairs =>
                      /\ changes[j].AfterRepo = pairs[changes[j].Name][2].Repository
                      /\ changes[j].AfterTag = pairs[changes[j].Name][2].Tag

-----------------------------------------------------------------------------
(* C14 *)

\* C14: when the command-line comparison of two charts has ended, then if both
\* scans succeeded the diff engine was invoked on the two scanned charts and a
\* report was rendered from the comparison; if a scan failed there is no diff
\* and no report, and the second chart was not scanned when the first scan
\* failed.
C14_Original ==
    pc = "cli_done" =>
        IF Len(scans) = 2 /\ ~scans[1].err /\ ~scans[2].err
        THEN /\ comparison # NoComparison
             /\ lastReport # NoReport
        ELSE /\ comparison = NoComparison
             /\ lastReport = NoReport
             /\ saved = <<>>
             /\ scans[1].err => Len(scans) = 1

-----------------------------------------------------------------------------
(* C15 *)

\* The number of occurrences of the character c in s.
Count(s, c) == Cardinality({i \in 1..Len(s) : s[i] = c})

\* s has the form repo/chart@version: one "/", and one "@" after it.
ChartForm(s) ==
    /\ Count(s, "/") = 1
    /\ \E p \in 1..Len(s) :
          /\ s[p] = "/"
          /\ Count(SubSeq(s, p + 1, Len(s)), "@") = 1

\* C15: once Scan has called parseChartReference on a reference the command
\* line let through, the call returned an error exactly when the reference is
\* not of the form repo/chart@version, and then with three empty strings;
\* otherwise the three strings returned, joined as repo/chart@version, are the
\* reference.  Scan reaches its first external command only with a reference
\* that parsed this way, and returns an error otherwise.
C15_ChartReference ==
    /\ output # NoParse /\ pc \in {"scan_error", "helm_repo_update"} =>
          /\ output.err <=> ~ChartForm(input)
          /\ output.err =>
                output.repo = <<>> /\ output.chart = <<>> /\ output.version = <<>>
          /\ ~output.err =>
                output.repo \o <<"/">> \o output.chart \o <<"@">> \o output.version = input
          /\ output.err <=> pc = "scan_error"
    /\ pc = "helm_repo_update" => output # NoParse /\ ~output.err

\* Scan is about to run its first external command for a reference with a
\* repository, a chart and a version.
C15_Witness ==
    /\ pc = "helm_repo_update"
    /\ output.repo # <<>>
    /\ output.chart # <<>>
    /\ output.version # <<>>

-----------------------------------------------------------------------------
(* C16 *)

\* The image string carries a tag: a ":" after its last "/".
Tagged(s) ==
    \E i \in 1..Len(s) : s[i] = ":" /\ \A j \in (i + 1)..Len(s) : s[j] # "/"

\* The string reads as an image reference: no part between two separators,
\* before the first or after the last is empty.
ImageLike(s) ==
    /\ \A i \in 1..Len(Split(s, "/")) : Split(s, "/")[i] # <<>>
    /\ \A i \in 1..Len(Split(s, ":")) : Split(s, ":")[i] # <<>>
    /\ \A i \in 1..(Len(s) - 1) : s[i] = "a" \/ s[i + 1] = "a"

\* C16: the reference Scan composes from a parsed image string that reads as
\* an image reference is the string itself when the string carries a tag, and
\* the string followed by ":latest" when it carries none; a string without a
\* repository part is no exception.
C16_Original ==
    (pc = "image_named" /\ ImageLike(input)) =>
        output.imageName = IF Tagged(input) THEN input ELSE input \o <<":">> \o Latest

====
